---- MODULE Spec2Model ----
(***************************************************************************)
(* Model of src/app.py: the discrete-event simulation PiketSimulasi (three *)
(* staffed stages lauk -> angkut -> nasi, one generator process per meja)  *)
(* and the part of the Streamlit handler that runs it and sorts the table. *)
(*                                                                         *)
(* Time is counted in tenths of a minute, so LAUK_SPEED = 0.8 is 8 and the *)
(* half-width 0.2 of random.uniform(LAUK_SPEED - 0.2, LAUK_SPEED + 0.2) is *)
(* 2.  random.uniform(a, b) is a + (b - a) * random() with random() in      *)
(* [0, 1): a point of the interval from a up to b.  The model draws one of *)
(* two points of it, the lower end a and the centre.                       *)
(*                                                                         *)
(* The event machinery is the one of the simpy calls the source makes:     *)
(* Environment.schedule / step, Process._resume, Resource.request /        *)
(* release with their put queue, Timeout.                                  *)
(***************************************************************************)
EXTENDS Integers, Sequences, FiniteSets, TLC

\* ------------------------------------------------------------------ bounds
\* Largest JUMLAH_MEJA a Config is given (the default 60 is out of reach).
MaxMeja == 4
\* Largest JUMLAH_MEJA in the specification with fairness.
MaxMejaLive == 3
\* Largest JUMLAH_MEJA in the specification that runs the handler twice.
MaxMejaRerun == 2

\* ------------------------------------------------------- program constants
\* capacity= of the three simpy.Resource objects
petugas_lauk == 2
petugas_angkut == 3
petugas_nasi == 2
\* half-widths of the three random.uniform windows, in tenths of a minute
LAUK_JITTER == 2
ANGKUT_JITTER == 1
NASI_JITTER == 2
\* simpy event priorities (Initialize is URGENT, everything else NORMAL)
URGENT == 0
NORMAL == 1

Stages == 0..2
LastStage == 2

\* Mutant of capacity: every resource is built with capacity=1.
capacity_one == [r \in Stages |-> 1]

capacity == [r \in Stages |-> CASE r = 0 -> petugas_lauk
                                [] r = 1 -> petugas_angkut
                                [] r = 2 -> petugas_nasi]

jitter == [r \in Stages |-> CASE r = 0 -> LAUK_JITTER
                              [] r = 1 -> ANGKUT_JITTER
                              [] r = 2 -> NASI_JITTER]

\* The Configs a PiketSimulasi is constructed with: the dataclass defaults
\* (0.8, 0.5, 0.8), every speed 1 minute, a LAUK_SPEED equal to its jitter
\* half-width and one below it.
SpeedChoices == { <<8, 5, 8>>, <<10, 10, 10>>, <<2, 5, 8>>, <<1, 5, 8>> }

Config == [JUMLAH_MEJA : 0..MaxMeja, SPEED : SpeedChoices]

DefaultSpeed == <<8, 5, 8>>

VARIABLES
  cfg,         \* self.config
  status,      \* where the handler is: constructed, running, returned, sorted, raised
  now,         \* env.now
  queue,       \* env._queue: the scheduled events
  eid,         \* env._eid: the insertion counter
  users,       \* users[r]: Resource.users, the requests holding a server
  put_queue,   \* put_queue[r]: Resource.put_queue, the waiting requests
  pc,          \* pc[p]: where process p of proses_meja is suspended
  stage,       \* stage[p]: the stage of proses_meja process p is in
  data_hasil,  \* self.data_hasil
  dur,         \* dur[p]: the values random.uniform returned to process p
  asked,       \* asked[p]: env.now when process p made its latest request()
  res_capacity,\* res_capacity[r]: Resource.capacity, set by the constructor
  usage_since, \* usage_since[p]: Request.usage_since, env.now at p's latest grant
  acq,         \* acq[p]: how many times process p was given a server
  rel,         \* rel[p]: how many times process p gave a server back
  waited,      \* waited[p]: total time process p spent in put queues
  df,          \* the DataFrame of the handler
  prev         \* the outcome of the handler's previous run, if any

vars == <<cfg, status, now, queue, eid, users, put_queue, pc, stage,
          data_hasil, dur, asked, res_capacity, usage_since, acq, rel, waited,
          df, prev>>

Meja == 1..cfg.JUMLAH_MEJA

NoRun == [ran |-> FALSE, data |-> <<>>, dur |-> <<>>, status |-> "none"]

\* ------------------------------------------------------------ random.uniform
\* random.uniform(lo, hi) = lo + (hi - lo) * random(), random() in [0, 1): the
\* module level generator is never seeded, so the draw is a free choice.
Uniform(lo, hi) == { lo, (lo + hi) \div 2 }

Samples(c, r) == Uniform(c.SPEED[r + 1] - jitter[r], c.SPEED[r + 1] + jitter[r])

\* ------------------------------------------------------- simpy.Environment
\* The queue is a heap of (time, priority, eid, event).
Event(t, prio, id, kind, p, r, ok) ==
  [time |-> t, prio |-> prio, eid |-> id, kind |-> kind, proc |-> p,
   res |-> r, ok |-> ok]

\* Mutant of Before: of two events of the same time and priority the one
\* scheduled last comes first.
Before_newest_first(a, b) ==
  \/ a.time < b.time
  \/ a.time = b.time /\ a.prio < b.prio
  \/ a.time = b.time /\ a.prio = b.prio /\ a.eid > b.eid

\* heap order of Environment._queue
Before(a, b) ==
  \/ a.time < b.time
  \/ a.time = b.time /\ a.prio < b.prio
  \/ a.time = b.time /\ a.prio = b.prio /\ a.eid < b.eid

\* heappop(self._queue)
HeapTop(q) == CHOOSE e \in q : \A f \in q \ {e} : Before(e, f)

\* The part of the simulation the simpy calls of one step work on.
Sim == [now |-> now, queue |-> queue, eid |-> eid, users |-> users,
        put_queue |-> put_queue]

\* Mutant of schedule: the delay is dropped, every event is due at once.
schedule_no_delay(s, prio, delay, kind, p, r, ok) ==
  [s EXCEPT !.queue = @ \cup {Event(s.now, prio, s.eid, kind, p, r, ok)},
            !.eid = @ + 1]

\* Mutant of schedule: scheduling an event moves the clock to its time, as
\* a sleep would.
schedule_sleeps(s, prio, delay, kind, p, r, ok) ==
  [s EXCEPT !.queue = @ \cup {Event(s.now + delay, prio, s.eid, kind, p, r, ok)},
            !.eid = @ + 1,
            !.now = @ + delay]

\* Environment.schedule(event, priority, delay)
schedule(s, prio, delay, kind, p, r, ok) ==
  [s EXCEPT !.queue = @ \cup {Event(s.now + delay, prio, s.eid, kind, p, r, ok)},
            !.eid = @ + 1]

\* --------------------------------------------------------- simpy.Resource
RemoveFirst(seq, x) ==
  IF \E i \in 1..Len(seq) : seq[i] = x
  THEN LET i == CHOOSE k \in 1..Len(seq) :
                  seq[k] = x /\ \A m \in 1..(k - 1) : seq[m] # x
       IN  SubSeq(seq, 1, i - 1) \o SubSeq(seq, i + 1, Len(seq))
  ELSE seq

InSeq(seq, x) == \E i \in 1..Len(seq) : seq[i] = x

\* Mutant of do_put: the test of the capacity is missing.
do_put_unbounded(s, r) ==
  LET p == Head(s.put_queue[r])
  IN  schedule([s EXCEPT !.users[r] = Append(@, p),
                         !.put_queue[r] = Tail(@)],
               NORMAL, 0, "request", p, r, TRUE)

\* Mutant of do_put: the newest request of the put queue is served, not the
\* oldest.
do_put_lifo(s, r) ==
  IF Len(s.users[r]) < res_capacity[r]
  THEN LET n == Len(s.put_queue[r])
           p == s.put_queue[r][n]
       IN  schedule([s EXCEPT !.users[r] = Append(@, p),
                              !.put_queue[r] = SubSeq(@, 1, n - 1)],
                    NORMAL, 0, "request", p, r, TRUE)
  ELSE s

\* Resource._do_put on the head of the put queue: a free server is given to
\* it and the request event succeeds (is scheduled at the current time).
do_put(s, r) ==
  IF Len(s.users[r]) < res_capacity[r]
  THEN LET p == Head(s.put_queue[r])
       IN  schedule([s EXCEPT !.users[r] = Append(@, p),
                              !.put_queue[r] = Tail(@)],
                    NORMAL, 0, "request", p, r, TRUE)
  ELSE s

\* BaseResource._trigger_put: _do_put returns None, so the loop looks at the
\* head of the put queue and stops.
trigger_put(s, r) ==
  IF s.put_queue[r] = <<>> THEN s ELSE do_put(s, r)

\* Mutant of request: the request joins the put queue and nothing looks at
\* the queue, so even a free server is not given to it.
request_no_trigger(s, p, r) ==
  [s EXCEPT !.put_queue[r] = Append(@, p)]

\* Resource.request() by process p: joins the put queue, then _trigger_put.
request(s, p, r) ==
  trigger_put([s EXCEPT !.put_queue[r] = Append(@, p)], r)

\* Mutant of release: the request is not taken out of the users (the server
\* is never given back).
release_keeps_user(s, p, r) ==
  schedule([s EXCEPT !.put_queue[r] = RemoveFirst(@, p)],
           NORMAL, 0, "release", p, r, TRUE)

\* Mutant of release: the server is given back but no Release event is
\* scheduled, so nothing serves the put queue.
release_no_event(s, p, r) ==
  [s EXCEPT !.put_queue[r] = RemoveFirst(@, p),
            !.users[r] = RemoveFirst(@, p)]

\* Mutant of release: the Release event is scheduled with a delay, so the
\* put queue is served later than the server was given back.
release_late(s, p, r) ==
  schedule([s EXCEPT !.put_queue[r] = RemoveFirst(@, p),
                     !.users[r] = RemoveFirst(@, p)],
           NORMAL, 1, "release", p, r, TRUE)

\* Request.__exit__ at the end of the with block: the request leaves the put
\* queue if it is still there, then Resource.release removes it from the
\* users at once and schedules the Release event, whose callback is
\* _trigger_put.
release(s, p, r) ==
  schedule([s EXCEPT !.put_queue[r] = RemoveFirst(@, p),
                     !.users[r] = RemoveFirst(@, p)],
           NORMAL, 0, "release", p, r, TRUE)

\* ------------------------------------------------------------ the handler
\* Mutant of Construct: the Environment of the run before is kept, so the
\* clock is not back at 0.
Construct_keeps_env(c) ==
  /\ cfg' = c
  /\ now' = now
  /\ queue' = {}
  /\ eid' = eid
  /\ users' = [r \in Stages |-> <<>>]
  /\ put_queue' = [r \in Stages |-> <<>>]
  /\ pc' = [p \in 1..c.JUMLAH_MEJA |-> "unborn"]
  /\ stage' = [p \in 1..c.JUMLAH_MEJA |-> 0]
  /\ data_hasil' = <<>>
  /\ dur' = [p \in 1..c.JUMLAH_MEJA |-> <<>>]
  /\ asked' = [p \in 1..c.JUMLAH_MEJA |-> 0]
  /\ res_capacity' = capacity
  /\ usage_since' = [p \in 1..c.JUMLAH_MEJA |-> 0]
  /\ acq' = [p \in 1..c.JUMLAH_MEJA |-> 0]
  /\ rel' = [p \in 1..c.JUMLAH_MEJA |-> 0]
  /\ waited' = [p \in 1..c.JUMLAH_MEJA |-> 0]
  /\ df' = <<>>
  /\ status' = "constructed"

\* PiketSimulasi.__init__: a fresh Environment, three idle Resources, no rows.
Construct(c) ==
  /\ cfg' = c
  /\ now' = 0
  /\ queue' = {}
  /\ eid' = 0
  /\ users' = [r \in Stages |-> <<>>]
  /\ put_queue' = [r \in Stages |-> <<>>]
  /\ pc' = [p \in 1..c.JUMLAH_MEJA |-> "unborn"]
  /\ stage' = [p \in 1..c.JUMLAH_MEJA |-> 0]
  /\ data_hasil' = <<>>
  /\ dur' = [p \in 1..c.JUMLAH_MEJA |-> <<>>]
  /\ asked' = [p \in 1..c.JUMLAH_MEJA |-> 0]
  /\ res_capacity' = capacity
  /\ usage_since' = [p \in 1..c.JUMLAH_MEJA |-> 0]
  /\ acq' = [p \in 1..c.JUMLAH_MEJA |-> 0]
  /\ rel' = [p \in 1..c.JUMLAH_MEJA |-> 0]
  /\ waited' = [p \in 1..c.JUMLAH_MEJA |-> 0]
  /\ df' = <<>>
  /\ status' = "constructed"

Init ==
  /\ cfg \in Config
  /\ now = 0
  /\ queue = {}
  /\ eid = 0
  /\ users = [r \in Stages |-> <<>>]
  /\ put_queue = [r \in Stages |-> <<>>]
  /\ pc = [p \in 1..cfg.JUMLAH_MEJA |-> "unborn"]
  /\ stage = [p \in 1..cfg.JUMLAH_MEJA |-> 0]
  /\ data_hasil = <<>>
  /\ dur = [p \in 1..cfg.JUMLAH_MEJA |-> <<>>]
  /\ asked = [p \in 1..cfg.JUMLAH_MEJA |-> 0]
  /\ res_capacity = capacity
  /\ usage_since = [p \in 1..cfg.JUMLAH_MEJA |-> 0]
  /\ acq = [p \in 1..cfg.JUMLAH_MEJA |-> 0]
  /\ rel = [p \in 1..cfg.JUMLAH_MEJA |-> 0]
  /\ waited = [p \in 1..cfg.JUMLAH_MEJA |-> 0]
  /\ df = <<>>
  /\ status = "constructed"
  /\ prev = NoRun

\* The resources process p is given a server of, and gives one back to, when
\* the simulation goes from the current state to s.
GrantedIn(s, p) == {r \in Stages : ~InSeq(users[r], p) /\ InSeq(s.users[r], p)}
ReleasedIn(s, p) == {r \in Stages : InSeq(users[r], p) /\ ~InSeq(s.users[r], p)}

\* Bookkeeping of the grants and releases of a step: _do_put sets
\* usage_since of the request it grants; a process granted out of the put
\* queue has waited since it asked, one granted as it asks has not waited.
Account(s) ==
  /\ usage_since' = [p \in Meja |->
        IF GrantedIn(s, p) # {} THEN s.now ELSE usage_since[p]]
  /\ acq' = [p \in Meja |-> acq[p] + Cardinality(GrantedIn(s, p))]
  /\ rel' = [p \in Meja |-> rel[p] + Cardinality(ReleasedIn(s, p))]
  /\ waited' = [p \in Meja |->
        IF \E r \in GrantedIn(s, p) : InSeq(put_queue[r], p)
        THEN waited[p] + (s.now - asked[p])
        ELSE waited[p]]

\* Writes a Sim record back to the variables (t is s, evaluated once).
Commit(s) ==
  \E t \in {s} :
    /\ now' = t.now
    /\ queue' = t.queue
    /\ eid' = t.eid
    /\ users' = t.users
    /\ put_queue' = t.put_queue
    /\ Account(t)

\* Mutant of range_meja: range(1, JUMLAH_MEJA), the last meja is left out.
range_meja_short(c) == 1..(c.JUMLAH_MEJA - 1)

\* range(1, self.config.JUMLAH_MEJA + 1)
range_meja(c) == 1..c.JUMLAH_MEJA

\* Mutant of Spawned: the processes are started from the last id down.
RECURSIVE Spawned_reversed(_, _, _)
Spawned_reversed(s, p, ids) ==
  IF p \notin ids THEN s
  ELSE schedule(Spawned_reversed(s, p + 1, ids), URGENT, 0, "init", p, 0, TRUE)

\* The Initialize events of the processes p, p + 1, .. of the set ids, in the
\* order of the for loop.
RECURSIVE Spawned(_, _, _)
Spawned(s, p, ids) ==
  IF p \notin ids THEN s
  ELSE Spawned(schedule(s, URGENT, 0, "init", p, 0, TRUE), p + 1, ids)

\* run(), the for loop: env.process(self.proses_meja(i)) for every i of the
\* range; env.process schedules the Initialize event of the new process.
RunSpawn ==
  /\ status = "constructed"
  /\ Commit(Spawned(Sim, 1, range_meja(cfg)))
  /\ pc' = [p \in Meja |-> IF p \in range_meja(cfg) THEN "init" ELSE "unborn"]
  /\ status' = "running"
  /\ UNCHANGED <<cfg, res_capacity, stage, data_hasil, dur, asked, df, prev>>

\* env.run() pops the next event: Environment.step
Stepping == status = "running" /\ queue # {}

Popped == [Sim EXCEPT !.now = HeapTop(queue).time,
                      !.queue = queue \ {HeapTop(queue)}]

\* step() of an Initialize event: the generator starts and runs to its first
\* yield, the request of petugas_lauk.
StepInitialize ==
  /\ Stepping
  /\ HeapTop(queue).kind = "init"
  /\ LET p == HeapTop(queue).proc
     IN  /\ Commit(request(Popped, p, 0))
         /\ pc' = [pc EXCEPT ![p] = "waiting"]
         /\ stage' = [stage EXCEPT ![p] = 0]
         /\ asked' = [asked EXCEPT ![p] = Popped.now]
  /\ UNCHANGED <<cfg, res_capacity, status, data_hasil, dur, df, prev>>

\* step() of a Request event: the process holds a server of its stage; it
\* draws the duration and yields env.timeout(duration).  Timeout raises
\* ValueError for a negative delay: the exception leaves the with block
\* (the server is released) and ends the process, which fails.
StepRequest ==
  /\ Stepping
  /\ HeapTop(queue).kind = "request"
  /\ LET p == HeapTop(queue).proc
         r == HeapTop(queue).res
     IN  \E d \in Samples(cfg, r) :
           /\ dur' = [dur EXCEPT ![p] = Append(@, d)]
           /\ IF d >= 0
              THEN /\ Commit(schedule(Popped, NORMAL, d, "timeout", p, r, TRUE))
                   /\ pc' = [pc EXCEPT ![p] = "holding"]
              ELSE /\ Commit(schedule(release(Popped, p, r),
                                      NORMAL, 0, "process", p, r, FALSE))
                   /\ pc' = [pc EXCEPT ![p] = "failed"]
  /\ UNCHANGED <<cfg, res_capacity, status, stage, data_hasil, asked, df, prev>>

\* Mutant of StepTimeout: the request of the next stage is made inside the
\* with block of the stage before, whose server is not given back.
StepTimeout_nested ==
  /\ Stepping
  /\ HeapTop(queue).kind = "timeout"
  /\ LET p == HeapTop(queue).proc
         r == HeapTop(queue).res
     IN  IF r < LastStage
         THEN /\ Commit(request(Popped, p, r + 1))
              /\ pc' = [pc EXCEPT ![p] = "waiting"]
              /\ stage' = [stage EXCEPT ![p] = r + 1]
              /\ asked' = [asked EXCEPT ![p] = Popped.now]
              /\ UNCHANGED data_hasil
         ELSE /\ Commit(schedule(release(Popped, p, r),
                                 NORMAL, 0, "process", p, r, TRUE))
              /\ pc' = [pc EXCEPT ![p] = "done"]
              /\ stage' = [stage EXCEPT ![p] = r + 1]
              /\ data_hasil' = Append(data_hasil, [Meja |-> p, Waktu |-> Popped.now])
              /\ UNCHANGED asked
  /\ UNCHANGED <<cfg, res_capacity, status, dur, df, prev>>

\* step() of a Timeout event: the process leaves the with block (release),
\* then either requests the resource of the next stage or appends its row
\* and ends.
StepTimeout ==
  /\ Stepping
  /\ HeapTop(queue).kind = "timeout"
  /\ LET p == HeapTop(queue).proc
         r == HeapTop(queue).res
         s == release(Popped, p, r)
     IN  IF r < LastStage
         THEN /\ Commit(request(s, p, r + 1))
              /\ pc' = [pc EXCEPT ![p] = "waiting"]
              /\ stage' = [stage EXCEPT ![p] = r + 1]
              /\ asked' = [asked EXCEPT ![p] = s.now]
              /\ UNCHANGED data_hasil
         ELSE /\ Commit(schedule(s, NORMAL, 0, "process", p, r, TRUE))
              /\ pc' = [pc EXCEPT ![p] = "done"]
              /\ stage' = [stage EXCEPT ![p] = r + 1]
              /\ data_hasil' = Append(data_hasil, [Meja |-> p, Waktu |-> s.now])
              /\ UNCHANGED asked
  /\ UNCHANGED <<cfg, res_capacity, status, dur, df, prev>>

\* step() of a Release event: its callback _trigger_put serves the put queue.
StepRelease ==
  /\ Stepping
  /\ HeapTop(queue).kind = "release"
  /\ Commit(trigger_put(Popped, HeapTop(queue).res))
  /\ UNCHANGED <<cfg, res_capacity, status, pc, stage, data_hasil, dur, asked, df, prev>>

\* step() of the event of a process that ended: nothing waits for it; a
\* failed one makes step(), and so env.run() and run(), raise.
StepProcess ==
  /\ Stepping
  /\ HeapTop(queue).kind = "process"
  /\ Commit(Popped)
  /\ status' = IF HeapTop(queue).ok THEN status ELSE "raised"
  /\ UNCHANGED <<cfg, res_capacity, pc, stage, data_hasil, dur, asked, df, prev>>

\* env.run() finds the queue empty; run() returns pd.DataFrame(data_hasil).
RunReturn ==
  /\ status = "running"
  /\ queue = {}
  /\ df' = data_hasil
  /\ status' = "returned"
  /\ UNCHANGED <<cfg, res_capacity, now, queue, eid, users, put_queue, pc, stage,
                 data_hasil, dur, asked, usage_since, acq, rel, waited, prev>>

\* Mutant of sort_values: ascending=False.
sort_values_descending(rows) ==
  LET n == Len(rows)
      ok(f) == \A i \in 1..n : \A j \in 1..n :
                 i < j => rows[f[i]].Waktu >= rows[f[j]].Waktu
  IN  { [i \in 1..n |-> rows[f[i]]] : f \in { g \in Permutations(1..n) : ok(g) } }

\* df.sort_values('Waktu Selesai'): ascending in the column; the default
\* kind is quicksort, which is not stable, so rows of equal 'Waktu Selesai'
\* come out in any order.
sort_values(rows) ==
  LET n == Len(rows)
      ok(f) == \A i \in 1..n : \A j \in 1..n :
                 i < j => rows[f[i]].Waktu <= rows[f[j]].Waktu
  IN  { [i \in 1..n |-> rows[f[i]]] : f \in { g \in Permutations(1..n) : ok(g) } }

\* df = df.sort_values('Waktu Selesai') in the handler.  A DataFrame built
\* from an empty list has no column of that name: KeyError.
SortValues ==
  /\ status = "returned"
  /\ IF df = <<>>
     THEN /\ status' = "raised"
          /\ UNCHANGED df
     ELSE /\ df' \in sort_values(df)
          /\ status' = "sorted"
  /\ UNCHANGED <<cfg, res_capacity, now, queue, eid, users, put_queue, pc, stage,
                 data_hasil, dur, asked, usage_since, acq, rel, waited, prev>>

\* The handler has ended, with its table or with an exception.
Ended == status \in {"sorted", "raised"}

Next ==
  \/ RunSpawn
  \/ StepInitialize
  \/ StepRequest
  \/ StepTimeout
  \/ StepRelease
  \/ StepProcess
  \/ RunReturn
  \/ SortValues

Spec == Init /\ [][Next]_vars

\* The handler runs from its first statement to its last without waiting for
\* anything: whatever step is possible is taken.
InitLive == Init /\ cfg.JUMLAH_MEJA <= MaxMejaLive

LiveSpec == InitLive /\ [][Next]_vars /\ WF_vars(Next)

\* The button is clicked again: Streamlit runs the script once more, and the
\* handler builds Config() and PiketSimulasi(cfg) anew.  The outcome of the
\* run before is remembered for comparison.
Rerun ==
  /\ Ended
  /\ ~prev.ran
  /\ prev' = [ran |-> TRUE, data |-> data_hasil, dur |-> dur, status |-> status]
  /\ Construct(cfg)

InitRerun == Init /\ cfg.JUMLAH_MEJA <= MaxMejaRerun

NextRerun == Next \/ Rerun

SpecRerun == InitRerun /\ [][NextRerun]_vars

\* ===================================================================== claims
\* A Config the specification calls valid, as far as the source has the
\* parameter: at least one meja, every speed non-negative and above the
\* half-width of its window.  (The capacities and half-widths are fixed.)
ValidConfig(c) ==
  /\ c.JUMLAH_MEJA >= 1
  /\ \A r \in Stages : c.SPEED[r + 1] >= 0 /\ jitter[r] < c.SPEED[r + 1]

\* No draw of the Config can be negative.
NonNegativeDurations(c) == \A r \in Stages : \A d \in Samples(c, r) : d >= 0

Position(seq, x) == CHOOSE i \in 1..Len(seq) : seq[i] = x

AllDone == \A p \in Meja : pc[p] = "done"

\* C1: for every valid Config, the table run() returns has exactly
\* JUMLAH_MEJA rows, and every id of 1..JUMLAH_MEJA is the 'Meja' of exactly
\* one row (none missing, none twice, none outside the range).
C1_OneRowPerMeja ==
  (ValidConfig(cfg) /\ status = "returned") =>
     /\ Len(df) = cfg.JUMLAH_MEJA
     /\ \A i \in 1..Len(df) : df[i].Meja \in 1..cfg.JUMLAH_MEJA
     /\ \A p \in 1..cfg.JUMLAH_MEJA :
          Cardinality({i \in 1..Len(df) : df[i].Meja = p}) = 1

\* run() has returned for a valid Config of three meja or more, one of which
\* had to queue for petugas_lauk.
C1_Witness ==
  /\ ValidConfig(cfg)
  /\ status = "returned"
  /\ cfg.JUMLAH_MEJA >= 3
  /\ Len(df) >= 3

\* C2: in every state, each of the three resources has between 0 and its
\* capacity servers in use.
C2_InUseWithinCapacity ==
  \A r \in Stages : Len(users[r]) >= 0 /\ Len(users[r]) <= capacity[r]

\* petugas_nasi is full while a process waits for it, and petugas_angkut is
\* in use.
C2_Witness ==
  /\ Len(users[2]) = capacity[2]
  /\ put_queue[2] # <<>>
  /\ users[1] # <<>>

\* In this step process p is given a server of resource r.
Granted(r, p) == ~InSeq(users[r], p) /\ InSeq(users'[r], p)

\* C3: FIFO order of each resource.  If process a waits in the put queue of
\* a resource and process b is given a server of it in a step, then b waited
\* too and was ahead of a (so a process that requests at the time of a
\* release does not overtake a waiter); the processes that go on waiting
\* keep their order, and a new request joins at the tail.
C3_FifoStep ==
  \A r \in Stages : \A a \in Meja : \A b \in Meja \ {a} :
    /\ (InSeq(put_queue[r], a) /\ Granted(r, b)) =>
          /\ InSeq(put_queue[r], b)
          /\ Position(put_queue[r], b) < Position(put_queue[r], a)
    /\ (InSeq(put_queue[r], a) /\ InSeq(put_queue'[r], a) /\ InSeq(put_queue'[r], b)) =>
          IF InSeq(put_queue[r], b)
          THEN (Position(put_queue[r], a) < Position(put_queue[r], b))
                 <=> (Position(put_queue'[r], a) < Position(put_queue'[r], b))
          ELSE Position(put_queue'[r], a) < Position(put_queue'[r], b)

C3_Fifo == [][C3_FifoStep]_vars

\* A server of petugas_nasi was released and its Release event is still
\* pending; a process that requested petugas_nasi at the time of the release
\* waits, and the server has gone to a process that had been waiting since
\* an earlier time (its Request event was scheduled after the Release event).
C3_Witness ==
  \E e \in queue : \E f \in queue : \E b \in Meja :
     /\ e.kind = "release" /\ e.res = 2 /\ e.time = now
     /\ f.kind = "request" /\ f.res = 2 /\ f.time = now
     /\ f.eid > e.eid
     /\ InSeq(users[2], f.proc)
     /\ asked[f.proc] < now
     /\ InSeq(put_queue[2], b)
     /\ asked[b] = now

\* C4: termination.  For every valid Config the run reaches a state where
\* env.run() has found the event queue empty and run() has returned, and in
\* that state every one of the JUMLAH_MEJA processes has ended after its
\* third stage and has its row in data_hasil: none waits, none holds.
C4_RunEnded ==
  /\ status = "returned"
  /\ queue = {}
  /\ AllDone
  /\ \A p \in Meja : \E i \in 1..Len(data_hasil) : data_hasil[i].Meja = p
  /\ \A r \in Stages : users[r] = <<>> /\ put_queue[r] = <<>>

C4_Terminates == ValidConfig(cfg) => <>C4_RunEnded

\* run() has returned for a valid Config after processes queued for a
\* resource, with everything ended.
C4_Witness ==
  /\ ValidConfig(cfg)
  /\ C4_RunEnded
  /\ cfg.JUMLAH_MEJA > petugas_lauk

\* C5: no starvation.  When no draw of the Config can be negative, a process
\* that waits in the put queue of a resource is eventually given a server of
\* that resource.
C5_NoStarvation ==
  \A r \in Stages : \A p \in 1..MaxMejaLive :
    (p \in Meja /\ NonNegativeDurations(cfg) /\ InSeq(put_queue[r], p))
       ~> (p \in Meja /\ InSeq(users[r], p))

\* A process that had to wait for petugas_nasi since an earlier time holds a
\* server of it now.
C5_Witness ==
  \E f \in queue :
     /\ f.kind = "request" /\ f.res = 2
     /\ InSeq(users[2], f.proc)
     /\ asked[f.proc] < now
     /\ NonNegativeDurations(cfg)

\* ------------------------------------------------------------------------
\* The handler has run twice with the same Config and run() has returned
\* both times.
TwoRuns == prev.ran /\ prev.status = "sorted" /\ status = "returned"

C7_InvalidConfigRejected ==
  ~ValidConfig(cfg) =>
     /\ status \in {"constructed", "raised"}
     /\ eid = 0
     /\ data_hasil = <<>>

\* C8 as stated: every duration drawn is >= 0 and no process fails on its
\* timeout.
C8_NoNegativeDelay ==
  \A p \in Meja :
    /\ pc[p] # "failed"
    /\ \A i \in 1..Len(dur[p]) : dur[p][i] >= 0

\* run() has returned its table, or the handler has sorted it.
HasTable == status \in {"returned", "sorted"}

\* C9 as stated: the table (of a valid Config) is ascending in 'Waktu
\* Selesai' and rows of equal 'Waktu Selesai' are in ascending 'Meja' order.
C9_TiesByMeja ==
  (ValidConfig(cfg) /\ HasTable) =>
    \A i \in 1..Len(df) : \A j \in 1..Len(df) :
      i < j => \/ df[i].Waktu < df[j].Waktu
               \/ df[i].Waktu = df[j].Waktu /\ df[i].Meja < df[j].Meja

\* C9, amended: the table returned by run() and the table sorted by the
\* handler are ascending (non-decreasing) in 'Waktu Selesai' and hold the
\* rows of data_hasil; rows of equal 'Waktu Selesai' are in no fixed order.
C9_SortedByWaktu ==
  HasTable =>
    /\ \A i \in 1..Len(df) : \A j \in 1..Len(df) :
         i < j => df[i].Waktu <= df[j].Waktu
    /\ Len(df) = Len(data_hasil)
    /\ \A i \in 1..Len(df) : InSeq(data_hasil, df[i])

\* The sorted table has two rows of equal 'Waktu Selesai', the higher 'Meja'
\* first.
C9_Witness ==
  /\ status = "sorted"
  /\ \E i \in 1..(Len(df) - 1) :
       df[i].Waktu = df[i + 1].Waktu /\ df[i].Meja > df[i + 1].Meja

\* run() has returned with every speed 1 minute and every draw equal to its
\* speed.
ZeroJitterRun ==
  /\ status = "returned"
  /\ cfg.SPEED = <<10, 10, 10>>
  /\ \A p \in Meja : dur[p] = <<10, 10, 10>>

\* 'Waktu Selesai' of the row of meja k
Offset(k) == df[CHOOSE i \in 1..Len(df) : df[i].Meja = k].Waktu

RECURSIVE Total(_)
Total(seq) == IF seq = <<>> THEN 0 ELSE Head(seq) + Total(Tail(seq))

\* Every stage has at least as many servers as there are meja.
AmpleCapacity == \A r \in Stages : res_capacity[r] >= cfg.JUMLAH_MEJA

\* C12: when every stage has at least JUMLAH_MEJA servers, no process is
\* ever in a put queue (none has waited), and the 'Waktu Selesai' of every
\* row is exactly the sum of the three durations drawn for its meja.
C12_NoQueueWhenAmple ==
  AmpleCapacity =>
    /\ \A r \in Stages : put_queue[r] = <<>>
    /\ \A p \in Meja : waited[p] = 0 /\ usage_since[p] = asked[p]
    /\ \A i \in 1..Len(data_hasil) :
         /\ Len(dur[data_hasil[i].Meja]) = 3
         /\ data_hasil[i].Waktu = Total(dur[data_hasil[i].Meja])

\* run() has returned the rows of two meja that were served side by side at
\* every stage, with different durations.
C12_Witness ==
  /\ AmpleCapacity
  /\ status = "returned"
  /\ cfg.JUMLAH_MEJA = 2
  /\ Len(data_hasil) = 2
  /\ dur[1] # dur[2]
  /\ \A i \in 1..2 : data_hasil[i].Waktu = Total(dur[data_hasil[i].Meja])
  /\ data_hasil[1].Waktu # data_hasil[2].Waktu

\* a is due before b, or at the same time and was scheduled before b.
EarlierDue(a, b) ==
  \/ a.time < b.time
  \/ a.time = b.time /\ a.eid < b.eid

\* A step that takes an event out of the queue takes the one that is due
\* first, sets the clock to its time without moving it back, and schedules
\* nothing that is due before it; any other step leaves the clock alone.
C13_DispatchStep ==
  IF queue \ queue' # {}
  THEN \E e \in queue :
         /\ queue \ queue' = {e}
         /\ \A f \in queue \ {e} : EarlierDue(e, f)
         /\ \A g \in queue' \ queue : EarlierDue(e, g)
         /\ now' = e.time
         /\ now' >= now
  ELSE now' = now

\* C13: the events are dispatched in strictly ascending order of (due time,
\* order of scheduling): an event due earlier fires before one due later,
\* events due at the same time fire in the order they were scheduled; the
\* clock starts at 0 and never decreases.
C13_DispatchOrder == now = 0 /\ [][C13_DispatchStep]_vars

\* After the clock has moved, a timeout, a release scheduled after it and a
\* timeout due later are pending, the first two due at the same time.
C13_Witness ==
  /\ status = "running"
  /\ now > 0
  /\ \E e \in queue : \E f \in queue : \E g \in queue :
       /\ e.time = f.time /\ f.time < g.time
       /\ e.eid < f.eid /\ g.eid < f.eid
       /\ e.kind = "timeout" /\ f.kind = "release" /\ g.kind = "timeout"

\* The moves of meja p the claim allows: started, first request, then for
\* each stage in turn granted-and-holding, released into the next stage,
\* and done after the last.
C14_MejaStep(p) ==
  \/ pc'[p] = pc[p] /\ stage'[p] = stage[p]
  \/ pc[p] = "unborn" /\ pc'[p] = "init" /\ stage'[p] = stage[p]
  \/ pc[p] = "init" /\ pc'[p] = "waiting" /\ stage'[p] = 0
  \/ pc[p] = "waiting" /\ pc'[p] = "holding" /\ stage'[p] = stage[p]
  \/ /\ pc[p] = "holding" /\ stage[p] < LastStage
     /\ pc'[p] = "waiting" /\ stage'[p] = stage[p] + 1
  \/ /\ pc[p] = "holding" /\ stage[p] = LastStage
     /\ pc'[p] = "done" /\ stage'[p] = stage[p] + 1

\* What meja p has acquired, held and released so far, by where it is.
C14_Counts(p) ==
  /\ pc[p] \in {"unborn", "init"} =>
       acq[p] = 0 /\ rel[p] = 0 /\ Len(dur[p]) = 0
  /\ pc[p] = "waiting" =>
       /\ acq[p] \in {stage[p], stage[p] + 1}
       /\ rel[p] = stage[p] /\ Len(dur[p]) = stage[p]
  /\ pc[p] = "holding" =>
       /\ acq[p] = stage[p] + 1
       /\ rel[p] = stage[p] /\ Len(dur[p]) = stage[p] + 1
  /\ pc[p] = "done" => acq[p] = 3 /\ rel[p] = 3 /\ Len(dur[p]) = 3
  /\ pc[p] \in {"unborn", "init", "waiting", "holding", "done"}

\* C14: every meja goes through the stages 0, 1, 2 and is then done, in
\* that order; at each stage it acquires the resource, holds it for one
\* timeout and releases it, once (3 acquisitions, 3 timeouts, 3 releases),
\* never skipping, repeating or retrying a stage; a run that has ended has
\* taken every meja through.
C14_ThreeStagesEach ==
  /\ [](\A p \in Meja : C14_Counts(p))
  /\ [](status \in {"returned", "sorted", "raised"} => AllDone)
  /\ [][\A p \in Meja : C14_MejaStep(p)]_vars

\* The resources meja p holds a server of, and those it waits for.
Held(p) == {r \in Stages : InSeq(users[r], p)}
Awaited(p) == {r \in Stages : InSeq(put_queue[r], p)}

HasRow(p) == \E i \in 1..Len(data_hasil) : data_hasil[i].Meja = p

\* Meja p holds at most one server, of the stage it is in, and none while
\* it waits; once its row is there it holds and awaits nothing and has
\* released the server of the last stage.
C15_HoldsOnlyItsStage(p) ==
  /\ \A r \in Stages :
       Cardinality({i \in 1..Len(users[r]) : users[r][i] = p}) <= 1
  /\ Cardinality(Held(p)) <= 1
  /\ Held(p) \subseteq {stage[p]}
  /\ Awaited(p) \subseteq {stage[p]}
  /\ Awaited(p) # {} => Held(p) = {}
  /\ HasRow(p) =>
       /\ Held(p) = {} /\ Awaited(p) = {}
       /\ rel[p] = acq[p] /\ rel[p] = LastStage + 1

\* A step that appends a row is the step of the timeout of the last stage
\* of the row's meja; the row carries the time of that timeout, and the
\* meja has given the server back in the same step.
C15_RowStep ==
  data_hasil' # data_hasil =>
    LET e == HeapTop(queue)
    IN  /\ e.kind = "timeout" /\ e.res = LastStage
        /\ InSeq(users[LastStage], e.proc)
        /\ ~InSeq(users'[LastStage], e.proc)
        /\ data_hasil' = Append(data_hasil, [Meja |-> e.proc, Waktu |-> e.time])

\* C15: a meja holds at most one server at any time, only of the stage it
\* is in; it never holds a server of one stage while it waits for or holds
\* one of another; it holds none when its row is emitted: the row is
\* emitted after the release of the last stage, with the virtual time at
\* which the timeout of the last stage fired.
C15_Exclusive ==
  /\ [](\A p \in Meja : C15_HoldsOnlyItsStage(p))
  /\ [][C15_RowStep]_vars

\* One meja has its row while a second one holds a server of the last
\* stage and a third waits for one, holding nothing.
C15_Witness ==
  \E p \in Meja : \E q \in Meja : \E w \in Meja :
    /\ HasRow(p) /\ Held(p) = {}
    /\ Held(q) = {LastStage}
    /\ Awaited(w) = {LastStage} /\ Held(w) = {}

\* Resource r has a free server while a process waits for it.
FreeWhileQueued(r) ==
  put_queue[r] # <<>> /\ Len(users[r]) < res_capacity[r]

\* The Release event of a release of r made at the current time is pending.
ReleasePending(r) ==
  \E e \in queue : e.kind = "release" /\ e.res = r /\ e.time = now

\* A free server next to a waiting process is there only between a release
\* and the dispatch of its Release event, and the clock does not move on
\* from such a state; a process that was waiting is given a server only as
\* the head of the queue, at the time of a release whose Release event is
\* pending or being dispatched.
C16_HandOffStep ==
  /\ \A r \in Stages : FreeWhileQueued(r) => now' = now
  /\ \A r \in Stages : \A p \in Meja :
       (InSeq(put_queue[r], p) /\ InSeq(users'[r], p)) =>
         /\ p = Head(put_queue[r])
         /\ FreeWhileQueued(r)
         /\ ReleasePending(r)
         /\ now' = now
         /\ usage_since'[p] = now

\* C16: when a server is released while the queue of its resource is not
\* empty, the head of the queue is given the freed server at the same
\* virtual time as the release; a blocked process is given a server only
\* as the result of such a release; no state with a non-empty queue and
\* fewer servers in use than the capacity lasts beyond that virtual time.
C16_HandOff ==
  /\ [](\A r \in Stages : FreeWhileQueued(r) => ReleasePending(r))
  /\ [](\A e \in queue : e.kind = "release" => e.time = now)
  /\ [][C16_HandOffStep]_vars

\* A process that had waited holds a server it was given at the current
\* time, while another process still waits for the same resource.
C16_Witness ==
  \E r \in Stages : \E p \in Meja : \E w \in Meja :
    /\ InSeq(users[r], p)
    /\ usage_since[p] = now /\ asked[p] < now /\ stage[p] = r
    /\ InSeq(put_queue[r], w)
    /\ Len(users[r]) = res_capacity[r]

\* A step of env.run() ends with the clock at the time of the event it
\* dispatched, whatever it acquired, released, scheduled or appended after
\* the dispatch; a step that dispatches nothing leaves the clock alone; no
\* step changes a capacity.
C17_FrameStep ==
  /\ res_capacity' = res_capacity
  /\ IF Stepping
     THEN now' = HeapTop(queue).time
     ELSE now' = now
  /\ (acq' # acq \/ rel' # rel \/ data_hasil' # data_hasil
        \/ \E e \in queue' \ queue : e.kind = "timeout") => Stepping

\* C17: acquiring a resource, releasing a resource, scheduling a timeout
\* and emitting a row leave the virtual clock unchanged (only dispatching
\* the next pending event changes it), and no action of a run changes the
\* capacity of any of the three resources.
C17_Frame == [][C17_FrameStep]_vars

\* At the current time, later than 0, a row was appended, a server was
\* released and acquired, and a timeout is scheduled for a later time.
C17_Witness ==
  /\ now > 0
  /\ data_hasil # <<>>
  /\ data_hasil[Len(data_hasil)].Waktu = now
  /\ \E p \in Meja : Held(p) # {} /\ usage_since[p] = now
  /\ \E e \in queue : e.kind = "timeout" /\ e.time > now /\ e.eid >= eid - 2
  /\ res_capacity = capacity

\* Meja p has made its request of petugas_lauk; it has been given a server
\* of petugas_lauk.
AskedLauk(p) == pc[p] \notin {"unborn", "init"}
GrantedLauk(p) == acq[p] >= 1

\* C18: every meja makes its request of stage 0 at time 0, in ascending
\* order of id; so the servers of stage 0 are given in ascending order of
\* id: meja 1..capacity at time 0, and for i < j meja i is given its
\* stage 0 server no later than meja j.
C18_LaukInIdOrder ==
  /\ (\E p \in Meja : pc[p] = "init") => now = 0
  /\ \A p \in Meja :
       /\ (AskedLauk(p) /\ stage[p] = 0) => asked[p] = 0
       /\ (AskedLauk(p) /\ p <= res_capacity[0]) =>
            /\ GrantedLauk(p)
            /\ stage[p] = 0 => usage_since[p] = 0
  /\ \A i \in Meja : \A j \in Meja :
       i < j =>
         /\ AskedLauk(j) => AskedLauk(i)
         /\ GrantedLauk(j) => GrantedLauk(i)
         /\ (GrantedLauk(j) /\ stage[i] = 0 /\ stage[j] = 0) =>
              usage_since[i] <= usage_since[j]

\* Meja 3 was given a server of petugas_lauk later than time 0, after meja
\* 1 and 2, and meja 4 still waits for one.
C18_Witness ==
  /\ cfg.JUMLAH_MEJA >= 4
  /\ GrantedLauk(3) /\ stage[3] = 0 /\ usage_since[3] > 0
  /\ ~GrantedLauk(4) /\ InSeq(put_queue[0], 4)

\* C19: the 'Waktu Selesai' of every row is the sum of the three durations
\* drawn for its meja plus the time the meja waited in the put queues, so
\* it is at least that sum, and it is never negative; the rows are appended
\* to data_hasil in non-decreasing order of 'Waktu Selesai'.
C19_OffsetBounds ==
  /\ \A i \in 1..Len(data_hasil) :
       LET m == data_hasil[i].Meja
       IN  /\ Len(dur[m]) = 3
           /\ waited[m] >= 0
           /\ data_hasil[i].Waktu = Total(dur[m]) + waited[m]
           /\ data_hasil[i].Waktu >= Total(dur[m])
           /\ data_hasil[i].Waktu >= 0
  /\ \A i \in 1..Len(data_hasil) : \A j \in 1..Len(data_hasil) :
       i < j => data_hasil[i].Waktu <= data_hasil[j].Waktu

\* Three rows: one of a meja that never waited, one, appended later, of a
\* meja that waited and finished later than its durations add up to, and
\* between them one of a meja of a higher id than the next.
C19_Witness ==
  /\ Len(data_hasil) >= 3
  /\ waited[data_hasil[1].Meja] = 0
  /\ data_hasil[1].Waktu = Total(dur[data_hasil[1].Meja])
  /\ waited[data_hasil[3].Meja] > 0
  /\ data_hasil[3].Waktu > Total(dur[data_hasil[3].Meja])
  /\ data_hasil[2].Meja > data_hasil[3].Meja
  /\ data_hasil[1].Waktu < data_hasil[3].Waktu

====
